---- MODULE Spec2Model ----
(***************************************************************************)
(* Model of apps/tauri/src-tauri/src/lib.rs: run() registers a setup        *)
(* callback that resolves a fixed URL, asks the host toolkit for one        *)
(* webview window labelled "main", on macOS asks for the overlay title bar, *)
(* and returns Ok; run() then hands the process to the host runtime and     *)
(* expect()s its result.                                                    *)
(*                                                                          *)
(* The host toolkit is outside this file.  What it answers is drawn from    *)
(* small sets: the builder's default attributes, the result of build(), the *)
(* result of set_title_bar_style(), and the way it reports a failed setup   *)
(* callback (as the Err of run(), or by aborting by itself).                *)
(* pc = "loop" stands for the host dispatching events after the setup       *)
(* callback has completed.                                                  *)
(***************************************************************************)
EXTENDS Integers, Sequences, FiniteSets, TLC

\* Bound on the number of host events followed inside the event loop.
MaxTicks == 2

VARIABLES
  platform,     \* build variant of the running binary
  defaults,     \* the toolkit's default window attributes
  pc,           \* position in run() / the setup callback
  url,          \* the local `url`
  builder,      \* <<>> or <<the WebviewWindowBuilder being configured>>
  window,       \* <<>> or <<index in windows>>: the local `window` handle
  windows,      \* windows the host has created
  calls,        \* toolkit calls made by this code, in order
  built,        \* result of build(): "none", "Ok", "Err"
  tbResult,     \* result of set_title_bar_style(): "none", "Ok", "Err"
  handleUses,   \* number of method calls made on the window handle
  setupResult,  \* value returned by the setup callback: "none", "Ok", "Err"
  runResult,    \* value returned by Builder::run(): "none", "Ok", "Err"
  message,      \* diagnostic of the abort, "" when there is none
  ticks,        \* host events dispatched in the event loop
  prev          \* summary of the previous run of a build of this source

vars == <<platform, defaults, pc, url, builder, window, windows, calls, built,
          tbResult, handleUses, setupResult, runResult, message, ticks, prev>>

env == <<platform, defaults, prev>>

(***************************************************************************)
(* Build variants: cfg(desktop) / cfg(mobile), cfg(target_os = "macos").    *)
(***************************************************************************)
Platforms == {"macos", "desktop", "mobile"}

IsDesktopAlways(p) == TRUE
IsDesktop(p) == p \in {"macos", "desktop"}

IsMacOSAnyDesktop(p) == p \in {"macos", "desktop"}
IsMacOS(p) == p = "macos"

(***************************************************************************)
(* Text is a sequence of one-character strings, so that parsing is          *)
(* something computed.                                                      *)
(***************************************************************************)
UrlLiteralWithQuery ==
  <<"h","t","t","p","s",":","/","/","n","u","b","o",".","e","m","a","i","l",
    "/","l","o","g","i","n","?","a","=","1">>
UrlLiteralMalformed ==
  <<"n","u","b","o",".","e","m","a","i","l","/","l","o","g","i","n">>
UrlLiteral ==
  <<"h","t","t","p","s",":","/","/","n","u","b","o",".","e","m","a","i","l",
    "/","l","o","g","i","n">>

\* The two URLs the specification names.
LoginUrl ==
  <<"h","t","t","p","s",":","/","/","n","u","b","o",".","e","m","a","i","l",
    "/","l","o","g","i","n">>
InboxUrl ==
  <<"h","t","t","p","s",":","/","/","n","u","b","o",".","e","m","a","i","l",
    "/","m","a","i","l","/","i","n","b","o","x">>

\* First index >= from whose character is in cs, Len(s)+1 when there is none.
IndexOf(s, cs, from) ==
  LET I == {i \in from..Len(s) : s[i] \in cs}
  IN IF I = {} THEN Len(s) + 1 ELSE CHOOSE i \in I : \A j \in I : i <= j

Slice(s, a, b) == IF a > b THEN <<>> ELSE SubSeq(s, a, b)

NoUrl ==
  [ok |-> FALSE, scheme |-> <<>>, host |-> <<>>, path |-> <<>>,
   hasQuery |-> FALSE, query |-> <<>>, hasFragment |-> FALSE, fragment |-> <<>>]

\* "...".parse(): scheme "://" host [path] ["?" query] ["#" fragment].
\* A missing scheme or host is an error; an empty path becomes "/".
ParseUrl(s) ==
  LET c == IndexOf(s, {":"}, 1)
      a == c + 3
      e == IndexOf(s, {"/", "?", "#"}, a)
      q == IndexOf(s, {"?", "#"}, e)
      h == IndexOf(s, {"#"}, e)
      wellFormed == /\ c > 1
                    /\ c + 2 <= Len(s)
                    /\ s[c + 1] = "/"
                    /\ s[c + 2] = "/"
                    /\ \A i \in 1..(c - 1) : s[i] \notin {"/", "?", "#"}
                    /\ e > a
      hasQ == q <= Len(s) /\ s[q] = "?"
      hasF == h <= Len(s)
      p == Slice(s, e, q - 1)
  IN IF ~wellFormed THEN NoUrl
     ELSE [ok |-> TRUE,
           scheme |-> Slice(s, 1, c - 1),
           host |-> Slice(s, a, e - 1),
           path |-> IF p = <<>> THEN <<"/">> ELSE p,
           hasQuery |-> hasQ,
           query |-> IF hasQ THEN Slice(s, q + 1, h - 1) ELSE <<>>,
           hasFragment |-> hasF,
           fragment |-> IF hasF THEN Slice(s, h + 1, Len(s)) ELSE <<>>]

\* The text of a parsed URL.
Serialize(u) ==
  u.scheme \o <<":", "/", "/">> \o u.host \o u.path
    \o (IF u.hasQuery THEN <<"?">> \o u.query ELSE <<>>)
    \o (IF u.hasFragment THEN <<"#">> \o u.fragment ELSE <<>>)

(***************************************************************************)
(* Arguments of the builder calls.                                          *)
(***************************************************************************)
MainLabel == "main"

TitleArgOther == "Nubo Mail"
TitleArg == "Nubo"

InnerWidth == 1400
InnerHeight == 900
MinInnerWidth == 800
MinInnerHeight == 600
ResizableArgFromDefaults == defaults.resizable
ResizableArg == TRUE
FullscreenArg == FALSE
DecorationsArg == TRUE
VisibleArg == TRUE

ExpectMsg == "error while running tauri application"
\* A diagnostic of the host toolkit's own choosing.
HostDiagnostic == "host toolkit diagnostic"
\* The panic of unwrap() on a parse error.
UnwrapPanicMsg == "called Result::unwrap() on an Err value"

(***************************************************************************)
(* Attributes the toolkit's builder starts with; they are not set by this   *)
(* code.  The title and the sizes differ from the ones this code asks for,  *)
(* the flags take every combination.                                        *)
(***************************************************************************)
DefaultAttrs ==
  [title : {"Tauri App"},
   inner : {<<1024, 768>>},
   min : {<<0, 0>>},
   resizable : BOOLEAN,
   fullscreen : BOOLEAN,
   decorations : BOOLEAN,
   visible : BOOLEAN]

NoSize == <<0, 0>>

\* One call made to the toolkit; unused argument slots hold fillers.
Call(op, s, n, b, u) == [op |-> op, s |-> s, n |-> n, b |-> b, u |-> u]

NoDefaults ==
  [title |-> "", inner |-> NoSize, min |-> NoSize, resizable |-> FALSE,
   fullscreen |-> FALSE, decorations |-> FALSE, visible |-> FALSE]

\* Summary of a finished run.
NoPrev ==
  [valid |-> FALSE, platform |-> "", defaults |-> NoDefaults,
   built |-> "none", tbResult |-> "none", calls |-> <<>>]

(***************************************************************************)
(* Control flow decisions.                                                  *)
(***************************************************************************)
\* After WebviewWindowBuilder::new: the customisation chain on desktop only.
AfterNew(p) == IF IsDesktop(p) THEN "title" ELSE "build"

\* `?` on the result of build().
OnBuildErrRetry == "new"
OnBuildErrIgnore == "ret"
OnBuildErr == "setup_err"

\* After a successful build(): the macOS block, or the end of the block.
AfterBuildOk(p) == IF IsDesktop(p) /\ IsMacOS(p) THEN "titlebar" ELSE "drop"

\* `let _ = window.set_title_bar_style(..)`: the result is discarded.
OnTitleBarResultPropagate(r) == IF r = "Err" THEN "setup_err" ELSE "drop"
OnTitleBarResultAgain(r) == "titlebar"
OnTitleBarResult(r) == "drop"

StartRun(p, d) ==
  /\ platform' = p
  /\ defaults' = d
  /\ pc' = "setup"
  /\ url' = NoUrl
  /\ builder' = <<>>
  /\ window' = <<>>
  /\ windows' = <<>>
  /\ calls' = <<>>
  /\ built' = "none"
  /\ tbResult' = "none"
  /\ handleUses' = 0
  /\ setupResult' = "none"
  /\ runResult' = "none"
  /\ message' = ""
  /\ ticks' = 0

Init ==
  /\ platform \in Platforms
  /\ defaults \in DefaultAttrs
  /\ pc = "setup"
  /\ url = NoUrl
  /\ builder = <<>>
  /\ window = <<>>
  /\ windows = <<>>
  /\ calls = <<>>
  /\ built = "none"
  /\ tbResult = "none"
  /\ handleUses = 0
  /\ setupResult = "none"
  /\ runResult = "none"
  /\ message = ""
  /\ ticks = 0
  /\ prev = NoPrev

\* let url = WebviewUrl::External("...".parse().unwrap());
ResolveUrl ==
  /\ pc = "setup"
  /\ LET u == ParseUrl(UrlLiteral)
     IN IF u.ok
        THEN /\ url' = u
             /\ pc' = "new"
             /\ UNCHANGED message
        ELSE /\ url' = url
             /\ pc' = "aborted"
             /\ message' = UnwrapPanicMsg
  /\ UNCHANGED <<env, builder, window, windows, calls, built, tbResult,
                 handleUses, setupResult, runResult, ticks>>

\* WebviewWindowBuilder::new(app, "main", url)
NewBuilder ==
  /\ pc = "new"
  /\ builder' = <<[label |-> MainLabel, url |-> url, attrs |-> defaults]>>
  /\ calls' = Append(calls, Call("new", MainLabel, NoSize, FALSE, url))
  /\ pc' = AfterNew(platform)
  /\ UNCHANGED <<env, url, window, windows, built, tbResult, handleUses,
                 setupResult, runResult, message, ticks>>

BuilderStep(at, next, b, c) ==
  /\ pc = at
  /\ builder' = <<b>>
  /\ calls' = Append(calls, c)
  /\ pc' = next
  /\ UNCHANGED <<env, url, window, windows, built, tbResult, handleUses,
                 setupResult, runResult, message, ticks>>

\* .title("Nubo")
Title ==
  BuilderStep("title", "inner_size",
              [builder[1] EXCEPT !.attrs.title = TitleArg],
              Call("title", TitleArg, NoSize, FALSE, NoUrl))

\* .inner_size(1400.0, 900.0)
InnerSize ==
  BuilderStep("inner_size", "min_inner_size",
              [builder[1] EXCEPT !.attrs.inner = <<InnerWidth, InnerHeight>>],
              Call("inner_size", "", <<InnerWidth, InnerHeight>>, FALSE, NoUrl))

\* .min_inner_size(800.0, 600.0)
MinInnerSize ==
  BuilderStep("min_inner_size", "resizable",
              [builder[1] EXCEPT !.attrs.min = <<MinInnerWidth, MinInnerHeight>>],
              Call("min_inner_size", "", <<MinInnerWidth, MinInnerHeight>>,
                   FALSE, NoUrl))

\* .resizable(true)
Resizable ==
  BuilderStep("resizable", "fullscreen",
              [builder[1] EXCEPT !.attrs.resizable = ResizableArg],
              Call("resizable", "", NoSize, ResizableArg, NoUrl))

\* .fullscreen(false)
Fullscreen ==
  BuilderStep("fullscreen", "decorations",
              [builder[1] EXCEPT !.attrs.fullscreen = FullscreenArg],
              Call("fullscreen", "", NoSize, FullscreenArg, NoUrl))

\* .decorations(true)
Decorations ==
  BuilderStep("decorations", "visible",
              [builder[1] EXCEPT !.attrs.decorations = DecorationsArg],
              Call("decorations", "", NoSize, DecorationsArg, NoUrl))

\* .visible(true)
Visible ==
  BuilderStep("visible", "build",
              [builder[1] EXCEPT !.attrs.visible = VisibleArg],
              Call("visible", "", NoSize, VisibleArg, NoUrl))

\* .build()? : the toolkit creates the window or reports an error.
Build ==
  /\ pc = "build"
  /\ calls' = Append(calls, Call("build", "", NoSize, FALSE, NoUrl))
  /\ builder' = <<>>
  /\ \E ok \in BOOLEAN :
       IF ok
       THEN /\ built' = "Ok"
            /\ windows' = Append(windows,
                 [label |-> builder[1].label, url |-> builder[1].url,
                  attrs |-> builder[1].attrs, titleBarStyle |-> "Default"])
            /\ window' = <<Len(windows) + 1>>
            /\ pc' = AfterBuildOk(platform)
       ELSE /\ built' = "Err"
            /\ UNCHANGED <<windows, window>>
            /\ pc' = OnBuildErr
  /\ UNCHANGED <<env, url, tbResult, handleUses, setupResult, runResult,
                 message, ticks>>

\* let _ = window.set_title_bar_style(TitleBarStyle::Overlay);
SetTitleBarStyle ==
  /\ pc = "titlebar"
  /\ window # <<>>
  /\ calls' = Append(calls, Call("set_title_bar_style", "Overlay", NoSize,
                                 FALSE, NoUrl))
  /\ handleUses' = handleUses + 1
  /\ \E r \in {"Ok", "Err"} :
       /\ tbResult' = r
       /\ windows' = IF r = "Ok"
                     THEN [windows EXCEPT ![window[1]].titleBarStyle = "Overlay"]
                     ELSE windows
       /\ pc' = OnTitleBarResult(r)
  /\ UNCHANGED <<env, url, builder, window, built, setupResult, runResult,
                 message, ticks>>

\* End of the cfg block: the handle goes out of scope; the host keeps the
\* window.
DropWindow ==
  /\ pc = "drop"
  /\ window' = <<>>
  /\ pc' = "ret"
  /\ UNCHANGED <<env, url, builder, windows, calls, built, tbResult,
                 handleUses, setupResult, runResult, message, ticks>>

\* Ok(())
ReturnOk ==
  /\ pc = "ret"
  /\ setupResult' = "Ok"
  /\ pc' = "setup_ok"
  /\ UNCHANGED <<env, url, builder, window, windows, calls, built, tbResult,
                 handleUses, runResult, message, ticks>>

\* The `?` returned the error of build() from the setup callback.
ReturnErr ==
  /\ pc = "setup_err"
  /\ setupResult' = "Err"
  /\ window' = <<>>
  /\ pc' = "setup_failed"
  /\ UNCHANGED <<env, url, builder, windows, calls, built, tbResult,
                 handleUses, runResult, message, ticks>>

\* .run(..): the setup callback succeeded, the host dispatches events.
EnterEventLoop ==
  /\ pc = "setup_ok"
  /\ pc' = "loop"
  /\ UNCHANGED <<env, url, builder, window, windows, calls, built, tbResult,
                 handleUses, setupResult, runResult, message, ticks>>

\* One event handled by the host runtime.
HostEvent ==
  /\ pc = "loop"
  /\ ticks < MaxTicks
  /\ ticks' = ticks + 1
  /\ UNCHANGED <<env, pc, url, builder, window, windows, calls, built,
                 tbResult, handleUses, setupResult, runResult, message>>

\* The event loop ends, run(..) returns Ok(()), expect() passes it on.
LoopExit ==
  /\ pc = "loop"
  /\ runResult' = "Ok"
  /\ pc' = "exited"
  /\ UNCHANGED <<env, url, builder, window, windows, calls, built, tbResult,
                 handleUses, setupResult, message, ticks>>

\* .run(..) returns the setup error as its Err.
RunReturnsErr ==
  /\ pc = "setup_failed"
  /\ runResult' = "Err"
  /\ pc' = "run_err"
  /\ UNCHANGED <<env, url, builder, window, windows, calls, built, tbResult,
                 handleUses, setupResult, message, ticks>>

\* .expect("error while running tauri application") on an Err.
Expect ==
  /\ pc = "run_err"
  /\ message' = ExpectMsg
  /\ pc' = "aborted"
  /\ UNCHANGED <<env, url, builder, window, windows, calls, built, tbResult,
                 handleUses, setupResult, runResult, ticks>>

\* .run(..) does not return: the host aborts on the setup error by itself.
HostAbort ==
  /\ pc = "setup_failed"
  /\ message' = HostDiagnostic
  /\ pc' = "aborted"
  /\ UNCHANGED <<env, url, builder, window, windows, calls, built, tbResult,
                 handleUses, setupResult, runResult, ticks>>

\* The process has ended; a build of this source is started again.
Restart ==
  /\ pc \in {"exited", "aborted"}
  /\ prev' = [valid |-> TRUE, platform |-> platform, defaults |-> defaults,
              built |-> built, tbResult |-> tbResult, calls |-> calls]
  /\ \E p \in Platforms, d \in DefaultAttrs : StartRun(p, d)

Next ==
  \/ ResolveUrl
  \/ NewBuilder
  \/ Title
  \/ InnerSize
  \/ MinInnerSize
  \/ Resizable
  \/ Fullscreen
  \/ Decorations
  \/ Visible
  \/ Build
  \/ SetTitleBarStyle
  \/ DropWindow
  \/ ReturnOk
  \/ ReturnErr
  \/ EnterEventLoop
  \/ HostEvent
  \/ LoopExit
  \/ RunReturnsErr
  \/ Expect
  \/ HostAbort
  \/ Restart

Spec == Init /\ [][Next]_vars

\* The setup callback and the hand-over to the host run to completion.
SetupStep ==
  \/ ResolveUrl
  \/ NewBuilder
  \/ Title
  \/ InnerSize
  \/ MinInnerSize
  \/ Resizable
  \/ Fullscreen
  \/ Decorations
  \/ Visible
  \/ Build
  \/ SetTitleBarStyle
  \/ DropWindow
  \/ ReturnOk
  \/ ReturnErr

FairSpec == Spec /\ WF_vars(SetupStep) /\ WF_vars(EnterEventLoop)

(***************************************************************************)
(* Properties.                                                              *)
(***************************************************************************)
\* Positions of the calls named op in a call sequence.
CallsOf(cs, op) == {i \in 1..Len(cs) : cs[i].op = op}

CustomOps ==
  {"title", "inner_size", "min_inner_size", "resizable", "fullscreen",
   "decorations", "visible"}

AfterSetupOk == {"setup_ok", "loop", "exited"}
FailurePath == {"setup_err", "setup_failed", "run_err", "aborted"}

\* C1: in every build variant the setup callback asks for at most one window,
\* with label "main", and calls build() at most once; once it has returned Ok
\* after a successful build() exactly one window exists when control is with
\* the event loop, and no further window is requested or created afterwards.
C1_OneMainWindow ==
  /\ Cardinality(CallsOf(calls, "new")) <= 1
  /\ \A i \in CallsOf(calls, "new") : calls[i].s = "main"
  /\ Cardinality(CallsOf(calls, "build")) <= 1
  /\ Len(windows) <= 1
  /\ \A i \in 1..Len(windows) : windows[i].label = "main"
  /\ (pc \in AfterSetupOk) => (built = "Ok" /\ Len(windows) = 1)

C1_Witness ==
  /\ pc = "loop"
  /\ ticks >= 1
  /\ Len(windows) = 1
  /\ Cardinality(CallsOf(calls, "new")) = 1

C3_DesktopAttributes ==
  (platform \in {"macos", "desktop"}) =>
    \A i \in 1..Len(windows) :
      windows[i].attrs =
        [title |-> "Nubo", inner |-> <<1400, 900>>, min |-> <<800, 600>>,
         resizable |-> TRUE, fullscreen |-> FALSE, decorations |-> TRUE,
         visible |-> TRUE]

C3_Witness ==
  /\ platform = "desktop"
  /\ pc = "setup_ok"
  /\ Len(windows) = 1
  /\ defaults.resizable = FALSE
  /\ defaults.fullscreen = TRUE
  /\ defaults.decorations = FALSE
  /\ defaults.visible = FALSE

\* C4: the URL handed to the window builder (and carried by the window) reads
\* as one of "https://nubo.email/login" and "https://nubo.email/mail/inbox",
\* has no query and no fragment, and is the same in every run, whatever the
\* build variant.
UrlAsSpecified(u) ==
  /\ u.ok
  /\ Serialize(u) \in {LoginUrl, InboxUrl}
  /\ ~u.hasQuery
  /\ ~u.hasFragment

C4_FixedUrl ==
  /\ \A i \in CallsOf(calls, "new") : UrlAsSpecified(calls[i].u)
  /\ \A i \in 1..Len(windows) : UrlAsSpecified(windows[i].url)
  /\ \A i \in CallsOf(calls, "new") :
       \A j \in CallsOf(prev.calls, "new") : calls[i].u = prev.calls[j].u

C4_Witness ==
  /\ prev.valid
  /\ prev.platform = "mobile"
  /\ platform = "desktop"
  /\ Len(windows) = 1
  /\ CallsOf(prev.calls, "new") # {}

\* C5: a title-bar-style call is made only on macOS, only after a successful
\* build() and after the build call, with the overlay style; on macOS it has
\* been made exactly once as soon as control has passed the macOS block; on
\* the other variants no such call occurs and no window gets the overlay
\* style.
C5_TitleBarOnlyOnMacOS ==
  /\ \A i \in CallsOf(calls, "set_title_bar_style") :
       /\ platform = "macos"
       /\ built = "Ok"
       /\ calls[i].s = "Overlay"
       /\ \E j \in CallsOf(calls, "build") : j < i
  /\ (platform = "macos" /\ built = "Ok" /\ pc # "titlebar") =>
       Cardinality(CallsOf(calls, "set_title_bar_style")) = 1
  /\ \A i \in 1..Len(windows) :
       (windows[i].titleBarStyle = "Overlay") =>
         (platform = "macos" /\ tbResult = "Ok")

C5_Witness ==
  /\ platform = "macos"
  /\ pc = "loop"
  /\ tbResult = "Ok"
  /\ windows[1].titleBarStyle = "Overlay"

\* C6: in the mobile variant only new() and build() are called, the window
\* keeps the toolkit's default attributes, and the new() call (label and URL)
\* is the one a desktop run makes.
C6_MobileUncustomised ==
  (platform = "mobile") =>
    /\ \A i \in 1..Len(calls) : calls[i].op \in {"new", "build"}
    /\ \A i \in 1..Len(windows) :
         /\ windows[i].attrs = defaults
         /\ windows[i].label = "main"
    /\ (prev.valid /\ prev.platform # "mobile") =>
         \A i \in CallsOf(calls, "new") :
           \A j \in CallsOf(prev.calls, "new") : calls[i] = prev.calls[j]

C6_Witness ==
  /\ platform = "mobile"
  /\ pc = "loop"
  /\ Len(windows) = 1
  /\ prev.valid
  /\ prev.platform = "desktop"
  /\ defaults.resizable = FALSE
  /\ defaults.fullscreen = TRUE

\* C7: the URL is resolved before the window is requested, the title-bar call
\* comes after build(), the event loop is entered only after the setup
\* callback returned Ok, the window handle is used at most once (for the
\* title-bar call) and is dropped by then, and while the event loop runs this
\* code makes no call and touches no window.
C7_Order ==
  /\ (calls # <<>>) => (url.ok /\ calls[1].op = "new")
  /\ \A i \in CallsOf(calls, "new") : calls[i].u = url
  /\ \A i \in CallsOf(calls, "build") :
       \A j \in 1..Len(calls) : (calls[j].op \in CustomOps \cup {"new"}) => j < i
  /\ \A i \in CallsOf(calls, "set_title_bar_style") :
       \E j \in CallsOf(calls, "build") : j < i
  /\ handleUses <= 1
  /\ handleUses = Cardinality(CallsOf(calls, "set_title_bar_style"))
  /\ (pc \in {"loop", "exited"}) =>
       /\ setupResult = "Ok"
       /\ window = <<>>
       /\ builder = <<>>
       /\ CallsOf(calls, "build") # {}

C7_LoopStep ==
  (pc = "loop") =>
    /\ calls' = calls
    /\ windows' = windows
    /\ window' = window
    /\ handleUses' = handleUses
    /\ pc' \in {"loop", "exited"}

C7_StartupOrder == []C7_Order /\ [][C7_LoopStep]_vars

C7_Witness ==
  /\ platform = "macos"
  /\ pc = "loop"
  /\ ticks >= 1
  /\ handleUses = 1

\* C8: startup leaves the normal path only through a failed build(): every
\* state on the failure path has a failed build(), after a successful build()
\* nothing fails, and a successful build() leads to the setup callback
\* returning Ok and the event loop being started.
C8_State ==
  /\ (pc \in FailurePath \/ setupResult = "Err" \/ message # "") =>
       (built = "Err")
  /\ (built = "Ok") =>
       /\ pc \in {"titlebar", "drop", "ret"} \cup AfterSetupOk
       /\ (pc \in AfterSetupOk) <=> (setupResult = "Ok")

C8_OnlyBuildFails ==
  /\ []C8_State
  /\ (built = "Ok" /\ pc \notin {"loop", "exited"})
       ~> (pc = "loop" /\ setupResult = "Ok")

C8_Witness ==
  /\ built = "Ok"
  /\ pc = "loop"
  /\ setupResult = "Ok"
  /\ platform = "desktop"

\* C9: on macOS the result of set_title_bar_style() is discarded: whether it
\* is Ok or Err the run stays off the failure path, the window stays, the
\* setup callback returns Ok and the event loop is started.
C9_State ==
  (tbResult # "none") =>
    /\ pc \in {"drop", "ret"} \cup AfterSetupOk
    /\ Len(windows) = 1
    /\ setupResult # "Err"
    /\ message = ""
    /\ (tbResult = "Err") => (windows[1].titleBarStyle = "Default")

C9_TitleBarResultDiscarded ==
  /\ []C9_State
  /\ (tbResult = "Err" /\ pc \notin {"loop", "exited"})
       ~> (pc = "loop" /\ setupResult = "Ok" /\ Len(windows) = 1)

C9_Witness ==
  /\ tbResult = "Err"
  /\ pc = "loop"
  /\ setupResult = "Ok"
  /\ Len(windows) = 1

\* C10: two finished runs on the same build variant with the same result of
\* build() made the same toolkit calls with the same arguments in the same
\* order, whatever the toolkit's defaults and its answer to the title-bar
\* call were.
C10_SameCalls ==
  (/\ prev.valid
   /\ pc \in {"exited", "aborted"}
   /\ prev.platform = platform
   /\ prev.built = built) => (prev.calls = calls)

C10_Witness ==
  /\ prev.valid
  /\ pc = "exited"
  /\ platform = "macos"
  /\ prev.platform = "macos"
  /\ prev.built = built
  /\ prev.defaults # defaults
  /\ prev.tbResult # tbResult
  /\ Len(calls) = 10

====
